---- MODULE Spec2Model ----
(***************************************************************************)
(* Bhabhi card game server (backend/server.py): the game engine, the bot   *)
(* policy, the exchange flows and the read-modify-write discipline of the  *)
(* request handlers and bot tasks over the persisted Game record.          *)
(*                                                                         *)
(* Every handler is a coroutine: it reads the Game record (find_one),      *)
(* works on its private copy and writes it back (update_one $set).  Each   *)
(* database operation is one atomic step; the code between two awaits of   *)
(* one handler touches only that handler's private copy.                   *)
(***************************************************************************)
EXTENDS Integers, Sequences, FiniteSets, Bags, TLC

----------------------------------------------------------------------------
(* Bounds of the model *)

\* the deck holds the NumRanks highest ranks of every suit of DeckSuits
NumRanks == 3
\* handlers and bot tasks of the room that are in flight together
MaxInFlight == 2
\* tricks a game may start (trick_number is an unbounded counter)
MaxTricks == 3
\* shuffles the deal is drawn from
NumShuffles == 3
\* exchange and forfeit requests a game accepts (rejected ones are not counted)
MaxExchanges == 1
\* times a handler may read the record while another handler holds a copy of it
MaxOverlaps == 1
\* cards a bot may hold beyond the ceiling of its automatic forfeit
MaxOverCeiling == 2
\* cards in the hand of a bot that leads a trick
MaxLead == 3

\* shuffles the deal of the whole deck is drawn from
NumDeals == 17

----------------------------------------------------------------------------
(* Cards, deck and deal *)

SUITS == <<"hearts", "diamonds", "clubs", "spades">>

\* value of the highest rank: RANKS.index('A') + 2
AceValue == 14

\* the suits of the bounded deck, in SUITS order
DeckSuits == <<"hearts", "spades">>

None == "none"

Card(s, v) == [suit |-> s, value |-> v]

AceOfSpades == Card("spades", AceValue)

IsAceOfSpades(c) == c.suit = "spades" /\ c.value = AceValue

RECURSIVE DeckFrom(_, _)
DeckFrom(si, v) ==
    IF si > Len(DeckSuits) THEN <<>>
    ELSE IF v > AceValue THEN DeckFrom(si + 1, AceValue - NumRanks + 1)
    ELSE <<Card(DeckSuits[si], v)>> \o DeckFrom(si, v + 1)

\* create_deck before the shuffle: suit-major, ranks ascending
OrderedDeck == DeckFrom(1, AceValue - NumRanks + 1)

DeckSize == Len(OrderedDeck)

Swap(s, i, j) == [s EXCEPT ![i] = s[j], ![j] = s[i]]

\* random.shuffle: a Fisher-Yates pass whose draws come from the seed
RECURSIVE Shuffle(_, _, _)
Shuffle(deck, i, x) ==
    IF i < 2 THEN deck
    ELSE Shuffle(Swap(deck, i, (x % i) + 1), i - 1, (x * 5 + 3) % 17)

create_deck(seed) == Shuffle(OrderedDeck, DeckSize, 3 * seed)

\* a deal that stops after the last full round and leaves the other cards undealt
deal_cards_FullRounds(deck, n, seat) ==
    LET cnt == Len(deck) \div n
    IN [k \in 1..cnt |-> deck[seat + 1 + (k - 1) * n]]

\* hands[i % num_players].append(card); seat is 0-based
deal_cards(deck, n, seat) ==
    LET cnt == IF seat >= Len(deck) THEN 0 ELSE (Len(deck) - seat + n - 1) \div n
    IN [k \in 1..cnt |-> deck[seat + 1 + (k - 1) * n]]

----------------------------------------------------------------------------
(* Roster *)

player_order == <<"u1", "bot_1", "u2">>

NumPlayers == Len(player_order)

Players == {player_order[i] : i \in 1..NumPlayers}

\* pid.startswith("bot_")
IsBot(p) == p \in {"bot_1"}

Humans == {p \in Players : ~IsBot(p)}

\* player_order.index(p), 0-based
IndexOf(p) == (CHOOSE i \in 1..NumPlayers : player_order[i] = p) - 1

----------------------------------------------------------------------------
(* Sequence helpers *)

InSeq(x, s) == \E i \in 1..Len(s) : s[i] = x

Range(s) == {s[i] : i \in 1..Len(s)}

RemoveAt(s, k) == [i \in 1..(Len(s) - 1) |-> IF i < k THEN s[i] ELSE s[i + 1]]

\* max(cards, key=lambda c: c['value']): the first card of the greatest value
MaxCard(s) ==
    s[CHOOSE i \in 1..Len(s) :
        /\ \A j \in 1..Len(s) : s[j].value <= s[i].value
        /\ \A j \in 1..(i - 1) : s[j].value < s[i].value]

\* min(cards, key=lambda c: c['value']): the first card of the least value
MinCard(s) ==
    s[CHOOSE i \in 1..Len(s) :
        /\ \A j \in 1..Len(s) : s[j].value >= s[i].value
        /\ \A j \in 1..(i - 1) : s[j].value > s[i].value]

\* suit_counts[suit]
SuitCount(hand, suit) == Len(SelectSeq(hand, LAMBDA c : c.suit = suit))

\* max(suits, key=lambda s: suit_counts[s]): the first suit of the greatest count
MaxSuit(s, hand) ==
    s[CHOOSE i \in 1..Len(s) :
        /\ \A j \in 1..Len(s) : SuitCount(hand, s[j]) <= SuitCount(hand, s[i])
        /\ \A j \in 1..(i - 1) : SuitCount(hand, s[j]) < SuitCount(hand, s[i])]

\* min(suits, key=lambda s: suit_counts[s]): the first suit of the least count
MinSuit(s, hand) ==
    s[CHOOSE i \in 1..Len(s) :
        /\ \A j \in 1..Len(s) : SuitCount(hand, s[j]) >= SuitCount(hand, s[i])
        /\ \A j \in 1..(i - 1) : SuitCount(hand, s[j]) > SuitCount(hand, s[i])]

----------------------------------------------------------------------------
(* Trick rules *)

RECURSIVE HighestScan(_, _, _, _, _)
HighestScan(trick, suit, i, hi, hv) ==
    IF i > Len(trick) THEN hi
    ELSE IF trick[i].suit = suit /\ trick[i].value > hv
         THEN HighestScan(trick, suit, i + 1, i, trick[i].value)
         ELSE HighestScan(trick, suit, i + 1, hi, hv)

\* get_highest_of_suit whose loop never assigns highest_index
get_highest_of_suit_Unassigned(trick, suit) == 0

\* 1-based index of the highest card of the suit; 0 stands for the code's -1
get_highest_of_suit(trick, suit) == HighestScan(trick, suit, 1, 0, -1)

\* current_trick[highest_index]: index -1 is the last element
PyIndex(s, i) == IF i = 0 THEN s[Len(s)] ELSE s[i]

has_suit(hand, suit) == \E i \in 1..Len(hand) : hand[i].suit = suit

is_tochoo(card, lead_suit) == card.suit # lead_suit

SameCard(a, b) == a.suit = b.suit /\ a.value = b.value

StripPlayer(c) == Card(c.suit, c.value)

TrickCards(trick) == [i \in 1..Len(trick) |-> StripPlayer(trick[i])]

ActivePlayers(game) ==
    SelectSeq(player_order, LAMBDA p : ~InSeq(p, game.finished_players))

CurrentPlayer(game) == player_order[game.current_player_index + 1]

----------------------------------------------------------------------------
(* The Game record *)

NoResult == [type |-> None, player |-> None, lead_suit |-> None]

NoHistory == [p \in Players |-> {}]

\* lines 839-873: the record start_game inserts for the seats of order; it
\* has no tochoo_history key yet
start_game(order, deck) ==
    LET n == Len(order)
        hands == [i \in 1..n |-> deal_cards(deck, n, i - 1)]
        seat(p) == CHOOSE i \in 1..n : order[i] = p
        holders == {i \in 0..(n - 1) :
                        \E k \in 1..Len(hands[i + 1]) : IsAceOfSpades(hands[i + 1][k])}
        starter_index == IF holders = {} THEN 0
                         ELSE CHOOSE i \in holders : \A j \in holders : i <= j
    IN [player_hands |-> [p \in Range(order) |-> hands[seat(p)]],
        current_player_index |-> starter_index,
        current_trick |-> <<>>,
        lead_suit |-> None,
        waste_pile |-> <<>>,
        finished_players |-> <<>>,
        loser |-> None,
        status |-> "playing",
        is_first_trick |-> TRUE,
        trick_number |-> 1,
        has_history |-> FALSE,
        tochoo_history |-> [p \in Range(order) |-> {}],
        last_trick_result |-> NoResult]

\* the record of the room of the model
NewGame(seed) == start_game(player_order, create_deck(seed))

\* (index + 1) % len(player_order)
NextIndex(i) == (i + 1) % NumPlayers

\* a turn advance that never skips a seat
SkipFinished_NoSkip(i, finished) == i

\* while player_order[index] in finished_players: index = (index + 1) % n
RECURSIVE SkipFinished(_, _)
SkipFinished(i, finished) ==
    IF InSeq(player_order[i + 1], finished)
    THEN SkipFinished(NextIndex(i), finished)
    ELSE i

\* the skip loop ends only when some seat is not in finished_players
SkipTerminates(finished) == \E p \in Players : ~InSeq(p, finished)

----------------------------------------------------------------------------
(* process_trick_completion *)

PowerPlayer(game) ==
    PyIndex(game.current_trick,
            get_highest_of_suit(game.current_trick, game.lead_suit)).player_id

HasTochoo(game) ==
    \E i \in 1..Len(game.current_trick) :
        is_tochoo(game.current_trick[i], game.lead_suit)

\* process_trick_completion without the first-trick branch of lines 346-354
RouteTrick_NoFirstTrick(game) ==
    LET power == PowerPlayer(game)
        cards == TrickCards(game.current_trick)
    IN IF HasTochoo(game)
       THEN [game EXCEPT !.player_hands[power] = @ \o cards,
                         !.tochoo_history[power] = @ \cup {game.lead_suit},
                         !.last_trick_result =
                             [type |-> "pickup", player |-> power,
                              lead_suit |-> game.lead_suit]]
       ELSE [game EXCEPT !.waste_pile = @ \o cards,
                         !.last_trick_result =
                             [type |-> "discarded", player |-> power,
                              lead_suit |-> game.lead_suit]]

\* lines 346-382: where the cards of the trick go
RouteTrick(game) ==
    LET power == PowerPlayer(game)
        cards == TrickCards(game.current_trick)
    IN IF game.is_first_trick
       THEN [game EXCEPT !.waste_pile = @ \o cards,
                         !.last_trick_result =
                             [type |-> "discarded", player |-> power,
                              lead_suit |-> game.lead_suit]]
       ELSE IF HasTochoo(game)
       THEN [game EXCEPT !.player_hands[power] = @ \o cards,
                         !.tochoo_history[power] = @ \cup {game.lead_suit},
                         !.last_trick_result =
                             [type |-> "pickup", player |-> power,
                              lead_suit |-> game.lead_suit]]
       ELSE [game EXCEPT !.waste_pile = @ \o cards,
                         !.last_trick_result =
                             [type |-> "discarded", player |-> power,
                              lead_suit |-> game.lead_suit]]

\* lines 387-391
ClearTrick(game) ==
    [game EXCEPT !.current_trick = <<>>,
                 !.lead_suit = None,
                 !.is_first_trick = FALSE,
                 !.trick_number = @ + 1,
                 !.has_history = TRUE]

\* the escape loop of lines 395-400 with its membership test inverted: nobody is added
MarkEscaped_NobodyAdded(game, power) == game

\* lines 393-400: the active players with an empty hand, but for the power player
MarkEscaped(game, power) ==
    LET escaped == SelectSeq(ActivePlayers(game),
                             LAMBDA p : Len(game.player_hands[p]) = 0 /\ p # power)
    IN [game EXCEPT !.finished_players = @ \o escaped]

\* the record after lines 320-403
ResolvedTrick(game) ==
    MarkEscaped(ClearTrick(RouteTrick(game)), PowerPlayer(game))

\* lines 406-409
FinishByTrick(game) ==
    LET active_players == ActivePlayers(game)
    IN [game EXCEPT !.loser = IF Len(active_players) = 1 THEN active_players[1] ELSE @,
                    !.status = "finished"]

\* lines 423-428: random.shuffle(waste_pile); waste_pile.pop(); draw names the
\* card the shuffle leaves last (the order of the rest is never observed)
DrawFromWaste(game, power, draw) ==
    IF Len(game.player_hands[power]) = 0 /\ Len(game.waste_pile) > 0
    THEN [game EXCEPT !.player_hands[power] = <<game.waste_pile[draw]>>,
                      !.waste_pile = RemoveAt(@, draw)]
    ELSE game

\* the handoff of lines 431-432 without the skip loop of lines 435-436
HandOff_NoSkip(game, power) ==
    [game EXCEPT !.current_player_index = IndexOf(power)]

\* lines 431-436
HandOff(game, power) ==
    [game EXCEPT !.current_player_index =
                     SkipFinished(IndexOf(power), game.finished_players)]

\* the draws random.shuffle can make for this resolution
Draws(game) ==
    LET g == ResolvedTrick(game)
        power == PowerPlayer(game)
    IN IF /\ Len(ActivePlayers(g)) > 1
          /\ Len(g.player_hands[power]) = 0
          /\ Len(g.waste_pile) > 0
       THEN 1..Len(g.waste_pile)
       ELSE {1}

process_trick_completion(game, draw) ==
    LET g == ResolvedTrick(game)
        power == PowerPlayer(game)
    IN IF Len(ActivePlayers(g)) <= 1
       THEN FinishByTrick(g)
       ELSE HandOff(DrawFromWaste(g, power, draw), power)

----------------------------------------------------------------------------
(* choose_bot_card *)

\* list(suit_counts.keys()): the suits of the hand in order of first appearance
RECURSIVE SuitKeys(_, _)
SuitKeys(hand, acc) ==
    IF hand = <<>> THEN acc
    ELSE SuitKeys(Tail(hand),
                  IF InSeq(Head(hand).suit, acc) THEN acc
                  ELSE Append(acc, Head(hand).suit))

\* a bot that remembers no suit it was tochoo'd in
MyTochooSuits_Forgets(game, bot_id) == {}

\* lines 142-149
MyTochooSuits(game, bot_id) ==
    game.tochoo_history[bot_id] \cup
        (IF /\ game.last_trick_result.type = "pickup"
            /\ game.last_trick_result.player = bot_id
            /\ game.last_trick_result.lead_suit # None
         THEN {game.last_trick_result.lead_suit} ELSE {})

\* lines 152-183
ChooseLead(hand, game, bot_id) ==
    LET Count(s) == SuitCount(hand, s)
        available_suits == SuitKeys(hand, <<>>)
        burned == MyTochooSuits(game, bot_id)
        safe_suits == SelectSeq(available_suits, LAMBDA s : s \notin burned)
        moderate_suits == SelectSeq(safe_suits, LAMBDA s : 2 <= Count(s) /\ Count(s) <= 5)
        best_suit == IF safe_suits # <<>>
                     THEN IF moderate_suits # <<>>
                          THEN MaxSuit(moderate_suits, hand)
                          ELSE MaxSuit(safe_suits, hand)
                     ELSE MinSuit(available_suits, hand)
        suit_cards == SelectSeq(hand, LAMBDA c : c.suit = best_suit)
    IN MinCard(suit_cards)

\* max(..., default=0) over the lead-suit cards on the table
HighestPlayed(current_trick, lead_suit) ==
    LET vals == {current_trick[i].value : i \in
                    {j \in 1..Len(current_trick) : current_trick[j].suit = lead_suit}}
    IN IF vals = {} THEN 0 ELSE CHOOSE v \in vals : \A w \in vals : w <= v

\* lines 186-220
ChooseFollow(suit_cards, lead_suit, is_first_trick, current_trick) ==
    IF is_first_trick THEN MaxCard(suit_cards)
    ELSE IF current_trick # <<>>
    THEN LET highest_played == HighestPlayed(current_trick, lead_suit)
             winning_cards == SelectSeq(suit_cards, LAMBDA c : c.value > highest_played)
             losing_cards == SelectSeq(suit_cards, LAMBDA c : c.value <= highest_played)
             has_tochoo_in_trick == \E i \in 1..Len(current_trick) :
                                        current_trick[i].suit # lead_suit
         IN IF has_tochoo_in_trick
            THEN IF losing_cards # <<>> THEN MaxCard(losing_cards)
                 ELSE MinCard(winning_cards)
            ELSE IF losing_cards # <<>> THEN MaxCard(losing_cards)
                 ELSE MinCard(suit_cards)
    ELSE MinCard(suit_cards)

\* lines 222-239
ChooseDiscard(hand) ==
    LET singleton_cards == SelectSeq(hand, LAMBDA c : SuitCount(hand, c.suit) = 1)
        double_cards == SelectSeq(hand, LAMBDA c : SuitCount(hand, c.suit) = 2)
    IN IF singleton_cards # <<>> THEN MaxCard(singleton_cards)
       ELSE IF double_cards # <<>> THEN MaxCard(double_cards)
       ELSE MaxCard(hand)

\* hand is not empty (process_bot_turn returns before the call otherwise)
\* a policy that plays the highest card of the hand whatever was led
choose_bot_card_Highest(hand, lead_suit, is_first_trick, current_trick, game, bot_id) ==
    MaxCard(hand)

choose_bot_card(hand, lead_suit, is_first_trick, current_trick, game, bot_id) ==
    IF lead_suit = None THEN ChooseLead(hand, game, bot_id)
    ELSE LET suit_cards == SelectSeq(hand, LAMBDA c : c.suit = lead_suit)
         IN IF suit_cards # <<>>
            THEN ChooseFollow(suit_cards, lead_suit, is_first_trick, current_trick)
            ELSE ChooseDiscard(hand)

----------------------------------------------------------------------------
(* Playing a card: play_card lines 953-987, process_bot_turn lines 494-525 *)

InHand(hand, card) == \E i \in 1..Len(hand) : SameCard(hand[i], card)

HoldsAceOfSpades(hand) == \E i \in 1..Len(hand) : IsAceOfSpades(hand[i])

\* play_card without the turn check of lines 936-938
PlayVerdict_NoTurnCheck(game, user, card) ==
    LET hand == game.player_hands[user]
    IN IF game.status # "playing" THEN "Game is not in progress"
       ELSE IF ~InHand(hand, card) THEN "Card not in hand"
       ELSE IF game.current_trick = <<>>
       THEN IF /\ game.is_first_trick
               /\ HoldsAceOfSpades(hand)
               /\ ~IsAceOfSpades(card)
            THEN "Must play Ace of Spades to start"
            ELSE "ok"
       ELSE IF has_suit(hand, game.lead_suit) /\ card.suit # game.lead_suit
            THEN "Must follow suit"
            ELSE "ok"

\* play_card without the follow-suit check of lines 968-969
PlayVerdict_NoSuitCheck(game, user, card) ==
    LET hand == game.player_hands[user]
    IN IF game.status # "playing" THEN "Game is not in progress"
       ELSE IF CurrentPlayer(game) # user THEN "Not your turn"
       ELSE IF ~InHand(hand, card) THEN "Card not in hand"
       ELSE IF /\ game.current_trick = <<>>
               /\ game.is_first_trick
               /\ HoldsAceOfSpades(hand)
               /\ ~IsAceOfSpades(card)
       THEN "Must play Ace of Spades to start"
       ELSE "ok"

\* play_card without the Ace-of-spades check of lines 960-963
PlayVerdict_NoAceCheck(game, user, card) ==
    LET hand == game.player_hands[user]
    IN IF game.status # "playing" THEN "Game is not in progress"
       ELSE IF CurrentPlayer(game) # user THEN "Not your turn"
       ELSE IF ~InHand(hand, card) THEN "Card not in hand"
       ELSE IF /\ game.current_trick # <<>>
               /\ has_suit(hand, game.lead_suit)
               /\ card.suit # game.lead_suit
       THEN "Must follow suit"
       ELSE "ok"

\* the detail of the HTTPException play_card raises, or "ok"
PlayVerdict(game, user, card) ==
    LET hand == game.player_hands[user]
    IN IF game.status # "playing" THEN "Game is not in progress"
       ELSE IF CurrentPlayer(game) # user THEN "Not your turn"
       ELSE IF ~InHand(hand, card) THEN "Card not in hand"
       ELSE IF game.current_trick = <<>>
       THEN IF /\ game.is_first_trick
               /\ HoldsAceOfSpades(hand)
               /\ ~IsAceOfSpades(card)
            THEN "Must play Ace of Spades to start"
            ELSE "ok"
       ELSE IF has_suit(hand, game.lead_suit) /\ card.suit # game.lead_suit
            THEN "Must follow suit"
            ELSE "ok"

\* the card leaves the hand and joins the trick; a lead fixes lead_suit
PlayedCard(game, pid, card) ==
    LET hand == game.player_hands[pid]
        led == IF game.current_trick = <<>>
               THEN [game EXCEPT !.lead_suit = card.suit] ELSE game
    IN [led EXCEPT !.player_hands[pid] = SelectSeq(hand, LAMBDA c : ~SameCard(c, card)),
                   !.current_trick = Append(@, [suit |-> card.suit,
                                                value |-> card.value,
                                                player_id |-> pid])]

\* trick_complete, on the record after the play
TrickComplete(game, card, is_first_trick) ==
    IF ~is_first_trick /\ is_tochoo(card, game.lead_suit) THEN TRUE
    ELSE Len(game.current_trick) = Len(ActivePlayers(game))

\* the card process_bot_turn plays
BotCard(game, bot_id) ==
    LET hand == game.player_hands[bot_id]
    IN IF game.current_trick = <<>>
       THEN IF game.is_first_trick /\ HoldsAceOfSpades(hand)
            THEN AceOfSpades
            ELSE choose_bot_card(hand, None, game.is_first_trick,
                                 game.current_trick, game, bot_id)
       ELSE choose_bot_card(hand, game.lead_suit, game.is_first_trick,
                            game.current_trick, game, bot_id)

----------------------------------------------------------------------------
(* Exchange flows and forfeit: the private copy after the handler's changes *)

AddFinished(game, pid) ==
    IF InSeq(pid, game.finished_players) THEN game
    ELSE [game EXCEPT !.finished_players = Append(@, pid)]

\* the game-over check of an exchange flow that names the loser but leaves the status
GameOverCheck_LoserOnly(game) ==
    LET active_players == ActivePlayers(game)
    IN IF Len(active_players) = 1
       THEN [game EXCEPT !.loser = active_players[1]]
       ELSE game

\* if len(active_players) == 1: loser, status
GameOverCheck(game) ==
    LET active_players == ActivePlayers(game)
    IN IF Len(active_players) = 1
       THEN [game EXCEPT !.loser = active_players[1], !.status = "finished"]
       ELSE game

\* a transfer that copies the cards and leaves them in the giver's hand
Transfer_KeepsCards(game, giver, receiver) ==
    LET cards == game.player_hands[giver]
        given == [game EXCEPT !.player_hands[receiver] = @ \o cards]
    IN GameOverCheck(AddFinished(given, giver))

\* all cards of giver go to receiver, then giver's hand is emptied; giver escapes
Transfer(game, giver, receiver) ==
    LET cards == game.player_hands[giver]
        given == [game EXCEPT !.player_hands[receiver] = @ \o cards]
        emptied == [given EXCEPT !.player_hands[giver] = <<>>]
    IN GameOverCheck(AddFinished(emptied, giver))

\* the checks of take-cards without the one on the caller's own cards
TakeVerdict_NoSelfCheck(game, user, target) ==
    IF game.status # "playing" THEN "Game is not in progress"
    ELSE IF Len(game.player_hands[target]) = 0 THEN "Target has no cards"
    ELSE "ok"

TakeVerdict(game, user, target) ==
    IF game.status # "playing" THEN "Game is not in progress"
    ELSE IF Len(game.player_hands[target]) = 0 THEN "Target has no cards"
    ELSE IF target = user THEN "Cannot take your own cards"
    ELSE "ok"

\* the most cards a hand may hold to be requested or offered
ExchangeLimit == 3

RequestVerdict(game, user, target) ==
    IF game.status # "playing" THEN "Game is not in progress"
    ELSE IF target = user THEN "Cannot request cards from yourself"
    ELSE IF InSeq(target, game.finished_players) THEN "Target player has already escaped"
    ELSE IF Len(game.player_hands[target]) > ExchangeLimit
         THEN "Can only request cards from players with 3 or fewer cards"
    ELSE IF Len(game.player_hands[target]) = 0 THEN "Target has no cards"
    ELSE "ok"

\* the checks of offer-cards with the hand limit one card too low
OfferVerdict_LimitTwo(game, user, target) ==
    IF game.status # "playing" THEN "Game is not in progress"
    ELSE IF Len(game.player_hands[user]) >= ExchangeLimit
         THEN "You can only offer cards when you have 3 or fewer"
    ELSE IF Len(game.player_hands[user]) = 0 THEN "You have no cards to offer"
    ELSE IF target = user THEN "Cannot offer cards to yourself"
    ELSE IF InSeq(target, game.finished_players) THEN "Target player has already escaped"
    ELSE "ok"

OfferVerdict(game, user, target) ==
    IF game.status # "playing" THEN "Game is not in progress"
    ELSE IF Len(game.player_hands[user]) > ExchangeLimit
         THEN "You can only offer cards when you have 3 or fewer"
    ELSE IF Len(game.player_hands[user]) = 0 THEN "You have no cards to offer"
    ELSE IF target = user THEN "Cannot offer cards to yourself"
    ELSE IF InSeq(target, game.finished_players) THEN "Target player has already escaped"
    ELSE "ok"

ForfeitVerdict(game, user) ==
    IF game.status # "playing" THEN "Game is not in progress"
    ELSE IF InSeq(user, game.finished_players) THEN "You have already escaped"
    ELSE "ok"

\* a forfeit that also puts the forfeiting player into finished_players
Forfeited_AddsSelf(game, pid) ==
    LET others == SelectSeq(player_order,
                            LAMBDA p : ~InSeq(p, game.finished_players))
    IN [game EXCEPT !.loser = pid,
                    !.status = "finished",
                    !.finished_players = @ \o others]

\* forfeit_game lines 1365-1371 and process_bot_turn lines 463-466
Forfeited(game, pid) ==
    LET others == SelectSeq(player_order,
                            LAMBDA p : ~InSeq(p, game.finished_players) /\ p # pid)
    IN [game EXCEPT !.loser = pid,
                    !.status = "finished",
                    !.finished_players = @ \o others]

\* a bot holding this many cards forfeits
BotForfeitCeiling == 35

----------------------------------------------------------------------------
(* State *)

VARIABLES
    db,     \* the persisted Game record of the room (db.games)
    tasks,  \* bag of the handlers and bot tasks in flight
    resp,   \* detail of the HTTPException being returned to a client, or None
    overlaps,  \* reads made so far while another handler held a private copy
    exchanges, \* exchange and forfeit requests accepted so far
    users   \* db.users: the games_played and games_won this game has added to each human

vars == <<db, tasks, resp, overlaps, exchanges, users>>

Deck == Range(OrderedDeck)

\* a bot task created by asyncio.create_task that has not read the record yet
NoGame == [NewGame(0) EXCEPT !.status = None]

BotTask == [op |-> "bot", user |-> None, pc |-> "sleep", game |-> NoGame, fresh |-> TRUE]

\* a handler past its find_one, holding its private copy
Handler(op, user, pc, game) ==
    [op |-> op, user |-> user, pc |-> pc, game |-> game, fresh |-> TRUE]

InFlight == BagToSet(tasks)

Put(t) == SetToBag({t})

Drop(t) == tasks (-) SetToBag({t})

HasRoom == BagCardinality(tasks) < MaxInFlight

\* some handler in flight holds a private copy of the record
CopyHeld == \E t \in InFlight : t.pc # "sleep"

MayRead == CopyHeld => overlaps < MaxOverlaps

AfterRead == IF CopyHeld THEN overlaps + 1 ELSE overlaps

\* update_one({"$set": game}): every key of the private copy is written; a
\* copy read before the first resolution has no tochoo_history key
Write(old, game) ==
    IF game.has_history THEN game
    ELSE [game EXCEPT !.tochoo_history = old.tochoo_history,
                      !.has_history = old.has_history]

\* the other handlers' copies are older than the record once it changes
Outdated(t) == IF t.pc = "sleep" THEN t ELSE [t EXCEPT !.fresh = FALSE]

Others(t, changed) ==
    IF changed THEN BagOfAll(Outdated, Drop(t)) ELSE Drop(t)

\* lines 570-573 and 1037-1040: arm a bot task when the next seat is a bot
Armed(game) ==
    IF game.status = "playing" /\ IsBot(CurrentPlayer(game))
    THEN SetToBag({BotTask}) ELSE EmptyBag

NoStats == [h \in Humans |-> [games_played |-> 0, games_won |-> 0]]

\* the stats loops of the finishing sequence (lines 412-417, 1078-1083,
\* 1156-1161, 1246-1251, 1318-1323, 1374-1379, 469-474)
Finish(stats, game) ==
    [h \in Humans |->
        [games_played |-> stats[h].games_played + 1,
         games_won |-> stats[h].games_won
                           + (IF InSeq(h, game.finished_players) THEN 1 ELSE 0)]]

\* process_trick_completion takes its game-over branch (line 406)
EndsByTrick(game) == Len(ActivePlayers(ResolvedTrick(game))) <= 1

\* the handler's copy went through a finishing sequence: a forfeit always
\* does, an exchange flow when one player is left active (line 1242)
EndsByExchange(op, game) ==
    IF op = "forfeit" THEN TRUE ELSE Len(ActivePlayers(game)) = 1

Init ==
    /\ \E seed \in 0..(NumShuffles - 1) : db = NewGame(seed)
    /\ tasks = Armed(db)
    /\ resp = None
    /\ overlaps = 0
    /\ exchanges = 0
    /\ users = NoStats

----------------------------------------------------------------------------
(* play_card *)

PlayPc(game, is_first_trick) ==
    LET card == game.current_trick[Len(game.current_trick)]
    IN IF TrickComplete(game, card, is_first_trick) THEN "show_complete" ELSE "show_open"

\* lines 929-987: the request is validated and applied to the private copy
PlayCard(user, card) ==
    LET verdict == PlayVerdict(db, user, card)
    IN \/ /\ verdict # "ok"
          /\ resp' = verdict
          /\ UNCHANGED <<db, tasks, overlaps, exchanges, users>>
       \/ /\ verdict = "ok"
          /\ db.trick_number <= MaxTricks
          /\ HasRoom
          /\ MayRead
          /\ LET game == PlayedCard(db, user, card)
             IN tasks' = tasks (+) Put(Handler("play", user,
                                               PlayPc(game, db.is_first_trick), game))
          /\ overlaps' = AfterRead
          /\ UNCHANGED <<db, resp, exchanges, users>>

\* a play handler that saves the card of an open trick but goes on to the
\* resolution of a complete trick without saving its last card
ShowCard_NoSave(t) ==
    /\ t.pc \in {"show_open", "show_complete"}
    /\ db' = IF t.pc = "show_open" THEN Write(db, t.game) ELSE db
    /\ tasks' = Others(t, db' # db) (+)
                    Put([t EXCEPT !.pc = IF t.pc = "show_open" THEN "advance" ELSE "resolve",
                                  !.fresh = TRUE])
    /\ UNCHANGED <<resp, overlaps, exchanges, users>>

\* lines 993-999 and 529-535: the played card is saved and the saved copy is
\* broadcast, the trick still on the table
ShowCard(t) ==
    /\ t.pc \in {"show_open", "show_complete"}
    /\ db' = Write(db, t.game)
    /\ tasks' = Others(t, db' # db) (+)
                    Put([t EXCEPT !.pc = IF t.pc = "show_open" THEN "advance" ELSE "resolve",
                                  !.fresh = TRUE])
    /\ UNCHANGED <<resp, overlaps, exchanges, users>>

\* lines 1003-1012 and 539-547: after the display delay the trick is resolved
\* on the private copy, the copy is saved and broadcast
Resolve(t) ==
    /\ t.pc = "resolve"
    /\ \E draw \in Draws(t.game) :
        LET game == process_trick_completion(t.game, draw)
        IN /\ db' = Write(db, game)
           /\ tasks' = Others(t, db' # db) (+)
                           Put([t EXCEPT !.pc = "clear", !.game = game, !.fresh = TRUE])
           /\ users' = IF EndsByTrick(t.game) THEN Finish(users, game) ELSE users
    /\ UNCHANGED <<resp, overlaps, exchanges>>

\* lines 1015-1024, 550-557: the result is cleared in the record and the
\* cleared copy is broadcast; then 1037-1040, 570-573
ClearResult(t) ==
    /\ t.pc = "clear"
    /\ db' = [db EXCEPT !.last_trick_result = NoResult]
    /\ tasks' = Others(t, db' # db) (+)
                    Armed([t.game EXCEPT !.last_trick_result = NoResult])
    /\ UNCHANGED <<resp, overlaps, exchanges, users>>

\* lines 1027-1034, 560-567, then 1037-1040, 570-573
Advance(t) ==
    /\ t.pc = "advance"
    /\ SkipTerminates(t.game.finished_players)
    /\ LET index == SkipFinished(NextIndex(t.game.current_player_index),
                                 t.game.finished_players)
       IN /\ db' = [db EXCEPT !.current_player_index = index]
          /\ tasks' = Others(t, db' # db) (+)
                          Armed([t.game EXCEPT !.current_player_index = index])
    /\ UNCHANGED <<resp, overlaps, exchanges, users>>

----------------------------------------------------------------------------
(* process_bot_turn *)

\* lines 444-459: the task returns without doing anything
BotIdle(game) ==
    \/ game.status # "playing"
    \/ ~IsBot(CurrentPlayer(game))
    \/ game.player_hands[CurrentPlayer(game)] = <<>>

\* lines 462-525: the private copy and the place the task goes on from
BotMove(game) ==
    LET bot_id == CurrentPlayer(game)
        played == PlayedCard(game, bot_id, BotCard(game, bot_id))
    IN IF Len(game.player_hands[bot_id]) >= BotForfeitCeiling
       THEN Handler("bot", bot_id, "commit", Forfeited(game, bot_id))
       ELSE Handler("bot", bot_id, PlayPc(played, game.is_first_trick), played)

BotRead(t) ==
    /\ t.pc = "sleep"
    /\ IF BotIdle(db)
       THEN /\ tasks' = Drop(t)
            /\ UNCHANGED <<overlaps, users>>
       ELSE /\ db.trick_number <= MaxTricks
            /\ MayRead
            /\ tasks' = Drop(t) (+) Put(BotMove(db))
            /\ overlaps' = AfterRead
            /\ users' = IF BotMove(db).pc = "commit"
                         THEN Finish(users, BotMove(db).game) ELSE users
    /\ UNCHANGED <<db, resp, exchanges>>

----------------------------------------------------------------------------
(* take-cards, request-cards, respond-card-request, offer-cards, forfeit *)

\* the single update_one of an exchange flow, of forfeit and of the bot's forfeit
Commit(t) ==
    /\ t.pc = "commit"
    /\ db' = Write(db, t.game)
    /\ tasks' = Others(t, db' # db)
    /\ UNCHANGED <<resp, overlaps, exchanges, users>>

Exchange(op, user, verdict, game) ==
    \/ /\ verdict # "ok"
       /\ resp' = verdict
       /\ UNCHANGED <<db, tasks, overlaps, exchanges, users>>
    \/ /\ verdict = "ok"
       /\ HasRoom
       /\ MayRead
       /\ exchanges < MaxExchanges
       /\ tasks' = tasks (+) Put(Handler(op, user, "commit", game))
       /\ overlaps' = AfterRead
       /\ exchanges' = exchanges + 1
       /\ users' = IF EndsByExchange(op, game) THEN Finish(users, game) ELSE users
       /\ UNCHANGED <<db, resp>>

TakeCards(user, target) ==
    Exchange("take", user, TakeVerdict(db, user, target), Transfer(db, target, user))

\* a request-cards that prompts every target and never accepts on a bot's behalf
RequestCards_AlwaysPrompts(user, target) ==
    LET verdict == RequestVerdict(db, user, target)
    IN IF verdict = "ok"
       THEN /\ resp' = "Request sent"
            /\ UNCHANGED <<db, tasks, overlaps, exchanges, users>>
       ELSE Exchange("request", user, verdict, Transfer(db, target, user))

RequestCards(user, target) ==
    LET verdict == RequestVerdict(db, user, target)
    IN IF verdict = "ok" /\ ~IsBot(target)
       THEN /\ resp' = "Request sent"
            /\ UNCHANGED <<db, tasks, overlaps, exchanges, users>>
       ELSE Exchange("request", user, verdict, Transfer(db, target, user))

RespondToRequest(user, requester, accept) ==
    IF ~accept
    THEN /\ resp' = "Request declined"
         /\ UNCHANGED <<db, tasks, overlaps, exchanges, users>>
    ELSE Exchange("respond", user, "ok", Transfer(db, user, requester))

OfferCards(user, target) ==
    Exchange("offer", user, OfferVerdict(db, user, target), Transfer(db, user, target))

ForfeitGame(user) ==
    Exchange("forfeit", user, ForfeitVerdict(db, user), Forfeited(db, user))

----------------------------------------------------------------------------

\* the answer reaches the client that made the rejected request
Return ==
    /\ resp # None
    /\ resp' = None
    /\ UNCHANGED <<db, tasks, overlaps, exchanges, users>>

\* a request is answered before the next step of the room is taken
Ready == resp = None

Next ==
    \/ \E user \in Humans, card \in Deck : Ready /\ PlayCard(user, card)
    \/ \E t \in InFlight : Ready /\ ShowCard(t)
    \/ \E t \in InFlight : Ready /\ Resolve(t)
    \/ \E t \in InFlight : Ready /\ ClearResult(t)
    \/ \E t \in InFlight : Ready /\ Advance(t)
    \/ \E t \in InFlight : Ready /\ BotRead(t)
    \/ \E t \in InFlight : Ready /\ Commit(t)
    \/ \E user \in Humans, target \in Players : Ready /\ TakeCards(user, target)
    \/ \E user \in Humans, target \in Players : Ready /\ RequestCards(user, target)
    \/ \E user \in Humans, requester \in Players, accept \in BOOLEAN :
           Ready /\ RespondToRequest(user, requester, accept)
    \/ \E user \in Humans, target \in Players : Ready /\ OfferCards(user, target)
    \/ \E user \in Humans : Ready /\ ForfeitGame(user)
    \/ Return

Spec == Init /\ [][Next]_vars

----------------------------------------------------------------------------
(* broadcast_game_state *)

\* all_hands of a recipient who is not shown the hands: None, a map without keys
NoHands == [p \in {} |-> <<>>]

\* a game_update that shows every recipient all the hands
game_update_AllHands(game, pid) ==
    [your_hand |-> game.player_hands[pid],
     all_hands |-> game.player_hands,
     current_player |-> CurrentPlayer(game),
     current_trick |-> game.current_trick,
     lead_suit |-> game.lead_suit,
     player_card_counts |-> [p \in Players |-> Len(game.player_hands[p])],
     finished_players |-> game.finished_players,
     loser |-> game.loser,
     status |-> game.status,
     is_first_trick |-> game.is_first_trick,
     trick_number |-> game.trick_number,
     last_trick_result |-> game.last_trick_result]

\* lines 297-315: the message sent to the human pid (players is the roster of
\* the room; completed_trick is carried by last_trick_result)
game_update(game, pid) ==
    LET is_spectator == InSeq(pid, game.finished_players)
    IN [your_hand |-> game.player_hands[pid],
        all_hands |-> IF is_spectator THEN game.player_hands ELSE NoHands,
        current_player |-> CurrentPlayer(game),
        current_trick |-> game.current_trick,
        lead_suit |-> game.lead_suit,
        player_card_counts |-> [p \in Players |-> Len(game.player_hands[p])],
        finished_players |-> game.finished_players,
        loser |-> game.loser,
        status |-> game.status,
        is_first_trick |-> game.is_first_trick,
        trick_number |-> game.trick_number,
        last_trick_result |-> game.last_trick_result]

\* lines 294-295: one message for every human of player_order
broadcast_game_state(game) == [pid \in Humans |-> game_update(game, pid)]

----------------------------------------------------------------------------
(* The forfeit flows late in a game played with the whole deck *)

RANKS == <<"2", "3", "4", "5", "6", "7", "8", "9", "10", "J", "Q", "K", "A">>

RECURSIVE DeckOver(_, _, _)
DeckOver(suits, si, v) ==
    IF si > Len(suits) THEN <<>>
    ELSE IF v > Len(RANKS) + 1 THEN DeckOver(suits, si + 1, 2)
    ELSE <<Card(suits[si], v)>> \o DeckOver(suits, si, v + 1)

\* create_deck before the shuffle, all suits and ranks: value = RANKS.index(rank) + 2
FullDeck == DeckOver(SUITS, 1, 2)

\* hand sizes of a bot that has reached the ceiling of its automatic forfeit
OverCeiling == BotForfeitCeiling..(BotForfeitCeiling + MaxOverCeiling)

\* a record late in a game: the first trick (the three highest spades) lies on
\* the waste pile, the bot has picked up bot_cards cards, the humans still in
\* play hold the others, a human who has escaped holds none
LateGame(bot_cards, index, finished) ==
    LET stock == SubSeq(FullDeck, 1, Len(FullDeck) - NumPlayers)
        rest == SubSeq(stock, bot_cards + 1, Len(stock))
        holders == SelectSeq(player_order,
                             LAMBDA p : ~IsBot(p) /\ ~InSeq(p, finished))
        seat(p) == (CHOOSE i \in 1..Len(holders) : holders[i] = p) - 1
        hands == [p \in Players |->
                    IF IsBot(p) THEN SubSeq(stock, 1, bot_cards)
                    ELSE IF InSeq(p, finished) THEN <<>>
                    ELSE deal_cards(rest, Len(holders), seat(p))]
    IN [NewGame(0) EXCEPT !.player_hands = hands,
                          !.current_player_index = index,
                          !.waste_pile = SubSeq(FullDeck, Len(stock) + 1, Len(FullDeck)),
                          !.finished_players = finished,
                          !.is_first_trick = FALSE,
                          !.trick_number = MaxTricks,
                          !.has_history = TRUE]

ForfeitInit ==
    /\ \E bot_cards \in OverCeiling, index \in 0..(NumPlayers - 1),
          finished \in {<<>>} \cup {<<h>> : h \in Humans} :
            /\ ~InSeq(player_order[index + 1], finished)
            /\ db = LateGame(bot_cards, index, finished)
    /\ tasks = Armed(db)
    /\ resp = None
    /\ overlaps = 0
    /\ exchanges = 0
    /\ users = NoStats

\* the bot tasks and the forfeit requests of the humans
ForfeitNext ==
    \/ \E t \in InFlight : Ready /\ BotRead(t)
    \/ \E t \in InFlight : Ready /\ Commit(t)
    \/ \E user \in Humans : Ready /\ ForfeitGame(user)
    \/ Return

ForfeitSpec == ForfeitInit /\ [][ForfeitNext]_vars

----------------------------------------------------------------------------
(* The deal of the whole deck to rooms of every size *)

\* a room is started with at least MinRoom players
MinRoom == 2
\* max_players of a room is at most MaxRoom
MaxRoom == 8

\* room["players"] in the order they joined
Seats == <<"u1", "bot_1", "u2", "u3", "u4", "u5", "u6", "u7">>

Room(n) == SubSeq(Seats, 1, n)

\* create_deck: the whole deck after random.shuffle
ShuffledDeck(seed) == Shuffle(FullDeck, Len(FullDeck), 3 * seed)

\* lines 893-895: a bot that holds the Ace of spades is given its task
FirstTurn(order, game) ==
    IF IsBot(order[game.current_player_index + 1])
    THEN SetToBag({BotTask}) ELSE EmptyBag

\* restart_game, players join or leave, then start_game
StartGame(n, seed) ==
    /\ db' = start_game(Room(n), ShuffledDeck(seed))
    /\ tasks' = FirstTurn(Room(n), db')
    /\ resp' = None
    /\ overlaps' = 0
    /\ exchanges' = 0
    /\ users' = NoStats

DealInit ==
    /\ \E n \in MinRoom..MaxRoom, seed \in 0..(NumDeals - 1) :
          db = start_game(Room(n), ShuffledDeck(seed))
    /\ tasks = FirstTurn(Room(Cardinality(DOMAIN db.player_hands)), db)
    /\ resp = None
    /\ overlaps = 0
    /\ exchanges = 0
    /\ users = NoStats

DealNext == \E n \in MinRoom..MaxRoom, seed \in 0..(NumDeals - 1) : StartGame(n, seed)

DealSpec == DealInit /\ [][DealNext]_vars

----------------------------------------------------------------------------
(* A bot leading a trick late in a game played with the whole deck *)

\* the ranks the leading bot's hand is drawn from: King and Ace
LeadRanks == {AceValue - 1, AceValue}

LeadPool == {Card(SUITS[si], v) : si \in 1..Len(SUITS), v \in LeadRanks}

\* the hands of 1 to MaxLead cards of the pool, in every stored order
LeadHands ==
    {hand \in UNION {[1..n -> LeadPool] : n \in 1..MaxLead} :
        \A i, j \in 1..Len(hand) : hand[i] = hand[j] => i = j}

\* a record after the first trick with the bot at the seat to lead: it holds
\* hand and has been tochoo'd in the suits of burned, each human holds one
\* Queen, the other cards lie on the waste pile
LeadGame(hand, burned) ==
    LET held == [p \in Players |->
                    IF IsBot(p) THEN hand
                    ELSE <<Card(SUITS[IndexOf(p) + 1], AceValue - 2)>>]
        out == SelectSeq(FullDeck,
                         LAMBDA c : \A p \in Players : ~InHand(held[p], c))
    IN [NewGame(0) EXCEPT !.player_hands = held,
                          !.current_player_index =
                              IndexOf(CHOOSE p \in Players : IsBot(p)),
                          !.waste_pile = out,
                          !.is_first_trick = FALSE,
                          !.trick_number = MaxTricks,
                          !.has_history = TRUE,
                          !.tochoo_history =
                              [p \in Players |-> IF IsBot(p) THEN burned ELSE {}]]

LeadInit ==
    /\ \E hand \in LeadHands, burned \in SUBSET Range(SUITS) :
          db = LeadGame(hand, burned)
    /\ tasks = Armed(db)
    /\ resp = None
    /\ overlaps = 0
    /\ exchanges = 0
    /\ users = NoStats

\* the bot task plays its lead and hands the turn on
LeadNext ==
    \/ \E t \in InFlight : Ready /\ BotRead(t)
    \/ \E t \in InFlight : Ready /\ ShowCard(t)
    \/ \E t \in InFlight : Ready /\ Advance(t)

LeadSpec == LeadInit /\ [][LeadNext]_vars

----------------------------------------------------------------------------

(* Properties *)

\* how many times the card lies in the hands, the waste pile and the trick
Copies(s, card) == Cardinality({i \in 1..Len(s) : SameCard(s[i], card)})

RECURSIVE InHands(_, _, _)
InHands(game, card, ps) ==
    IF ps = {} THEN 0
    ELSE LET p == CHOOSE q \in ps : TRUE
         IN Copies(game.player_hands[p], card) + InHands(game, card, ps \ {p})

Places(game, card) ==
    InHands(game, card, Players) + Copies(game.waste_pile, card)
        + Copies(game.current_trick, card)

\* C1: card conservation -- in every persisted state every dealt card is in
\* exactly one place among the hands, the waste pile and the current trick
C1_CardConservation == \A card \in Deck : Places(db, card) = 1

\* the whole-record writes of a handler: the played card, the resolved trick,
\* the result of an exchange flow or forfeit
WritesRecord(t) == ShowCard(t) \/ Resolve(t) \/ Commit(t)

\* C2: single writer -- no handler writes the record back from a copy that is
\* older than the record, i.e. after another handler's write changed it
C2_SingleWriter == [][\A t \in InFlight : WritesRecord(t) => t.fresh]_vars

\* C3: a play-card request of a player who is not the current player, or for
\* a card that is not in the caller's hand, is rejected with that detail and
\* neither changes the record nor starts a handler
C3_PlayRejected ==
    [][\A user \in Humans, card \in Deck :
          (/\ PlayCard(user, card)
           /\ db.status = "playing"
           /\ CurrentPlayer(db) # user \/ ~InHand(db.player_hands[user], card))
          => /\ resp' = IF CurrentPlayer(db) # user THEN "Not your turn"
                        ELSE "Card not in hand"
             /\ UNCHANGED <<db, tasks>>]_vars

\* a request of a player holding cards has just been rejected as out of turn
C3_Witness ==
    /\ resp = "Not your turn"
    /\ db.status = "playing"
    /\ \E user \in Humans : CurrentPlayer(db) # user /\ db.player_hands[user] # <<>>

\* the hand holds no card of the suit
Void(hand, suit) == \A i \in 1..Len(hand) : hand[i].suit # suit

\* the legality of the claim: leading, or void in the lead suit, or following
FollowsRule(game, user, card) ==
    \/ game.current_trick = <<>>
    \/ Void(game.player_hands[user], game.lead_suit)
    \/ card.suit = game.lead_suit

\* leading the first trick while holding the Ace of spades with another card
BreaksAceRule(game, user, card) ==
    /\ game.current_trick = <<>>
    /\ game.is_first_trick
    /\ InHand(game.player_hands[user], AceOfSpades)
    /\ card # AceOfSpades

\* the request is the current player's, for a card of their hand, in a game in progress
PlayableBy(user, card) ==
    /\ db.status = "playing"
    /\ CurrentPlayer(db) = user
    /\ InHand(db.player_hands[user], card)

\* the step accepts a request: no error is returned and a handler goes on
Accepted == resp' = None /\ tasks' # tasks

\* the step rejects a request: an error is returned and nothing else changes
Rejected == resp' # None /\ UNCHANGED <<db, tasks>>

\* C4 as stated: play-card accepts the current player's card if and only if
\* the player is leading, or holds no card of leadSuit, or follows leadSuit
C4_SuitFollowing ==
    [][\A user \in Humans, card \in Deck :
          (PlayCard(user, card) /\ PlayableBy(user, card))
          => /\ Accepted \/ Rejected
             /\ Accepted <=> FollowsRule(db, user, card)]_vars

\* C4 amended: play-card accepts the current player's card if and only if the
\* player is leading, or holds no card of leadSuit, or follows leadSuit, and
\* the play is not a lead of the first trick with another card by the holder
\* of the Ace of spades
C4_SuitFollowingAmended ==
    [][\A user \in Humans, card \in Deck :
          (PlayCard(user, card) /\ PlayableBy(user, card))
          => /\ Accepted \/ Rejected
             /\ Accepted <=> (FollowsRule(db, user, card)
                                /\ ~BreaksAceRule(db, user, card))]_vars

\* the current player, holding a card of the lead suit, was refused another suit
C4_Witness ==
    /\ resp = "Must follow suit"
    /\ db.current_trick # <<>>
    /\ ~Void(db.player_hands[CurrentPlayer(db)], db.lead_suit)
    /\ \E i \in 1..Len(db.player_hands[CurrentPlayer(db)]) :
           db.player_hands[CurrentPlayer(db)][i].suit # db.lead_suit

\* the first trick is about to be led by the holder of the Ace of spades
AceLead(game) ==
    /\ game.status = "playing"
    /\ game.is_first_trick
    /\ game.current_trick = <<>>
    /\ InHand(game.player_hands[CurrentPlayer(game)], AceOfSpades)

\* the handlers that hold the card they have just played, not yet saved
Playing(bag) == {t \in BagToSet(bag) : t.pc \in {"show_open", "show_complete"}}

LastPlayed(game) == game.current_trick[Len(game.current_trick)]

\* C5: while isFirstTrick is true and the trick is empty, the holder of the
\* Ace of spades can only lead it: a human lead of another card is rejected
\* and changes nothing, and a bot in that position plays the Ace of spades
C5_FirstTrickLead ==
    [][/\ \A user \in Humans, card \in Deck :
            (/\ PlayCard(user, card)
             /\ AceLead(db) /\ PlayableBy(user, card) /\ card # AceOfSpades)
            => resp' = "Must play Ace of Spades to start" /\ UNCHANGED <<db, tasks>>
       /\ \A t \in InFlight :
            (BotRead(t) /\ AceLead(db) /\ IsBot(CurrentPlayer(db)))
            => \E h \in Playing(tasks') :
                   /\ h.user = CurrentPlayer(db)
                   /\ h.game.current_trick =
                          <<[suit |-> "spades", value |-> AceValue,
                             player_id |-> CurrentPlayer(db)]>>]_vars

\* the holder of the Ace of spades and of another card was refused that card
C5_Witness ==
    /\ resp = "Must play Ace of Spades to start"
    /\ AceLead(db)
    /\ ~IsBot(CurrentPlayer(db))
    /\ Len(db.player_hands[CurrentPlayer(db)]) > 1

\* a play was accepted in this step, by a request or by a bot task
PlayStep ==
    \/ \E user \in Humans, card \in Deck : PlayCard(user, card) /\ Accepted
    \/ \E t \in InFlight : BotRead(t)

\* the handler started by the step: its copy is one more time in the bag
StartedBy(h) == CopiesIn(h, tasks') > CopiesIn(h, tasks)

TimesPlayed(game, p) ==
    Cardinality({i \in 1..Len(game.current_trick) : game.current_trick[i].player_id = p})

\* every player not in finishedPlayers has played exactly one card of the trick
AllPlayedOnce(game) ==
    \A p \in Players : ~InSeq(p, game.finished_players) => TimesPlayed(game, p) = 1

\* C6: an accepted play resolves the trick exactly when the card is off-suit
\* on a trick that is not the first, or every non-escaped player has now
\* played exactly one card; otherwise the trick stays open
C6_ResolutionTrigger ==
    [][PlayStep =>
         \A h \in Playing(tasks') :
            StartedBy(h) =>
               (h.pc = "show_complete" <=>
                   \/ ~db.is_first_trick /\ LastPlayed(h.game).suit # h.game.lead_suit
                   \/ AllPlayedOnce(h.game))]_vars

\* the player of the highest card of leadSuit in the trick
Highest(game) ==
    LET trick == game.current_trick
        i == CHOOSE k \in 1..Len(trick) :
                 /\ trick[k].suit = game.lead_suit
                 /\ \A j \in 1..Len(trick) :
                        trick[j].suit = game.lead_suit => trick[j].value <= trick[k].value
    IN trick[i].player_id

OffSuit(game) ==
    \E i \in 1..Len(game.current_trick) : game.current_trick[i].suit # game.lead_suit

\* the cards of the trick, without their players, in the order played
Played(game) ==
    [i \in 1..Len(game.current_trick) |->
        Card(game.current_trick[i].suit, game.current_trick[i].value)]

\* C7 as stated: when a trick resolves on the first trick, or with every card
\* of leadSuit, its cards are appended to the waste pile and no hand gains one
C7_DiscardLaw ==
    [][\A t \in InFlight :
          (Resolve(t) /\ (t.game.is_first_trick \/ ~OffSuit(t.game)))
          => /\ db'.waste_pile = t.game.waste_pile \o Played(t.game)
             /\ db'.player_hands = t.game.player_hands]_vars

\* the power player ends the trick with no card while the game goes on
DrawsCard(game) ==
    /\ game.player_hands[Highest(game)] = <<>>
    /\ Cardinality({p \in Players :
           /\ ~InSeq(p, game.finished_players)
           /\ p = Highest(game) \/ game.player_hands[p] # <<>>}) > 1

\* C7 amended: when a trick resolves on the first trick, or with every card
\* of leadSuit, its cards are appended to the waste pile and no hand gains a
\* card, except that a power player left with an empty hand in a game that
\* goes on then draws one card out of the waste pile, which may be a card of
\* the trick
C7_DiscardLawAmended ==
    [][\A t \in InFlight :
          (Resolve(t) /\ (t.game.is_first_trick \/ ~OffSuit(t.game)))
          => LET pile == t.game.waste_pile \o Played(t.game)
                 power == Highest(t.game)
             IN IF DrawsCard(t.game)
                THEN \E k \in 1..Len(pile) :
                        /\ db'.waste_pile = RemoveAt(pile, k)
                        /\ db'.player_hands =
                               [t.game.player_hands EXCEPT ![power] = <<pile[k]>>]
                ELSE /\ db'.waste_pile = pile
                     /\ db'.player_hands = t.game.player_hands]_vars

\* a trick with an off-suit card was discarded on the first trick
C7_Witness ==
    /\ db.last_trick_result.type = "discarded"
    /\ db.trick_number = 2
    /\ \E i \in 1..Len(db.waste_pile) :
           db.waste_pile[i].suit # db.last_trick_result.lead_suit

\* C8: when a trick that is not the first resolves with an off-suit card, the
\* player of its highest leadSuit card receives every card of the trick, the
\* waste pile gains nothing and leadSuit enters that player's tochooHistory
C8_PickupLaw ==
    [][\A t \in InFlight :
          (Resolve(t) /\ ~t.game.is_first_trick /\ OffSuit(t.game))
          => LET power == Highest(t.game)
             IN /\ db'.player_hands =
                       [t.game.player_hands EXCEPT ![power] = @ \o Played(t.game)]
                /\ db'.waste_pile = t.game.waste_pile
                /\ t.game.lead_suit \in db'.tochoo_history[power]]_vars

\* a trick has been picked up and is recorded in the picker's history
C8_Witness ==
    /\ db.last_trick_result.type = "pickup"
    /\ db.last_trick_result.lead_suit
           \in db.tochoo_history[db.last_trick_result.player]
    /\ Len(db.player_hands[db.last_trick_result.player]) >= 2

\* the pickup recipient of the trick, if it is picked up
PickedUpBy(game, p) == ~game.is_first_trick /\ OffSuit(game) /\ p = Highest(game)

Escaped(game) == Range(game.finished_players)

C10_EscapeMonotonic == [][Escaped(db) \subseteq Escaped(db')]_vars

\* a request of the player is made in this step
RequestBy(user) ==
    \/ \E card \in Deck : PlayCard(user, card)
    \/ \E target \in Players : TakeCards(user, target)
    \/ \E target \in Players : RequestCards(user, target)
    \/ \E requester \in Players : RespondToRequest(user, requester, TRUE)
    \/ \E target \in Players : OfferCards(user, target)
    \/ ForfeitGame(user)

\* C11: an escaped player cannot act -- every play-card, take-cards,
\* request-cards, accepted respond-to-request, offer-cards or forfeit of a
\* player in finishedPlayers is rejected and changes nothing
C11_EscapedCannotAct ==
    [][\A user \in Humans :
          (user \in Escaped(db) /\ RequestBy(user)) => Rejected]_vars

\* the players of playerOrder that are not in finishedPlayers
Active(game) == Players \ Escaped(game)

\* C12: termination condition -- in every persisted state status = finished
\* holds if and only if at most one player of playerOrder is not in
\* finishedPlayers
C12_Termination == (db.status = "finished") <=> (Cardinality(Active(db)) <= 1)

\* a trick resolution has ended the game with one player left
C12_Witness ==
    /\ db.status = "finished"
    /\ exchanges = 0
    /\ db.last_trick_result.type # None
    /\ Cardinality(Active(db)) = 1

\* C13: loser accounting -- in every persisted state loser is set if and only
\* if status = finished, and the loser of a finished game is the single
\* player of playerOrder not in finishedPlayers (the last player left by a
\* trick resolution or an exchange flow, or the player who forfeited)
C13_LoserAccounting ==
    /\ (db.loser # None) <=> (db.status = "finished")
    /\ db.status = "finished" => Active(db) = {db.loser}

\* the cards and the escapes of the record
Table(game) ==
    <<game.player_hands, game.current_trick, game.waste_pile, game.finished_players>>

\* C14: finished games are frozen -- once the persisted status is finished
\* every request is rejected, a bot task that starts does nothing, and the
\* hands, the trick, the waste pile and finishedPlayers never change again
C14_FinishedFrozen ==
    [][db.status = "finished" =>
          /\ \A user \in Humans : RequestBy(user) => Rejected
          /\ \A t \in InFlight : BotRead(t) => tasks' = Drop(t)
          /\ Table(db') = Table(db)]_vars

\* C15: terminal loser -- once the persisted record is finished with a loser,
\* every later persisted state is finished with the same loser
C15_TerminalLoser ==
    [][db.status = "finished" =>
          db'.status = "finished" /\ db'.loser = db.loser]_vars

\* C16: finishing runs once -- the finishing sequence is executed at most
\* once for a game, so no human's games_played or games_won is incremented
\* more than once
C16_FinishingOnce ==
    \A h \in Humans : users[h].games_played <= 1 /\ users[h].games_won <= 1

\* seats from p to q going round playerOrder
SeatsAfter(p, q) == (IndexOf(q) - IndexOf(p) + NumPlayers) % NumPlayers

\* p if p has not escaped, else the next seat after p that has not
Successor(p, escaped) ==
    CHOOSE q \in Players \ escaped :
        \A r \in Players \ escaped : SeatsAfter(p, q) <= SeatsAfter(p, r)

\* C17: turn handoff -- after a trick resolves without ending the game the
\* current player is the player of the trick's highest leadSuit card, or, if
\* that player is in finishedPlayers, the next seat after them that is not;
\* the current trick is empty and leadSuit is cleared
C17_TurnHandoff ==
    [][\A t \in InFlight :
          (Resolve(t) /\ db'.status = "playing")
          => /\ CurrentPlayer(db') = Successor(Highest(t.game), Escaped(db'))
             /\ db'.current_trick = <<>>
             /\ db'.lead_suit = None]_vars

\* a trick has resolved whose power player had escaped, and the turn went on
\* to the next seat still in play
C17_Witness ==
    /\ db.status = "playing"
    /\ db.last_trick_result.type # None
    /\ db.last_trick_result.player \in Escaped(db)
    /\ CurrentPlayer(db) # db.last_trick_result.player
    /\ db.current_trick = <<>>

\* the game waits for a card: no handler is between its read and its last write
WaitingForCard == \A t \in InFlight : t.pc = "sleep"

\* C18: current seat is active -- in every persisted state with status =
\* playing in which the game is waiting for a card, the player at
\* playerOrder[currentPlayerIndex] is not in finishedPlayers
C18_CurrentSeatActive ==
    (db.status = "playing" /\ WaitingForCard) => CurrentPlayer(db) \notin Escaped(db)

\* the take the claim describes, on the record the handler read
Taken(before, after, user, target) ==
    /\ after.player_hands =
           [before.player_hands EXCEPT
               ![user] = before.player_hands[user] \o before.player_hands[target],
               ![target] = <<>>]
    /\ target \in Escaped(after)
    /\ after.current_trick = before.current_trick
    /\ after.waste_pile = before.waste_pile

Requestable(hand) == 1 <= Len(hand) /\ Len(hand) <= ExchangeLimit

\* C20: request size limit -- every transfer of the request/respond flow (a
\* bot's automatic accept in request-cards, a human's accept in
\* respond-to-request) takes the cards of a giver who holds between 1 and 3
\* cards at the moment of the transfer
C20_RequestLimit ==
    [][/\ \A user \in Humans, target \in Players :
            (RequestCards(user, target) /\ Accepted)
            => Requestable(db.player_hands[target])
       /\ \A user \in Humans, requester \in Players :
            (RespondToRequest(user, requester, TRUE) /\ Accepted)
            => Requestable(db.player_hands[user])]_vars

\* C21: accepted request -- in a game in progress, request-cards on an active
\* bot holding 1 to 3 cards is accepted by the handler itself: on the record
\* it read the requester's hand grows by exactly the bot's cards, the bot's
\* hand is empty and the bot is in finishedPlayers, and that is the record it
\* writes; request-cards on a human target changes nothing in the record,
\* and neither does a decline
C21_AcceptedRequest ==
    [][/\ \A user \in Humans, target \in Players :
            (/\ RequestCards(user, target)
             /\ db.status = "playing"
             /\ IsBot(target)
             /\ target \notin Escaped(db)
             /\ Requestable(db.player_hands[target]))
            => /\ Accepted
               /\ \E h \in BagToSet(tasks') :
                     /\ StartedBy(h)
                     /\ h.op = "request" /\ h.user = user /\ h.pc = "commit"
                     /\ Taken(db, h.game, user, target)
                     /\ Len(h.game.player_hands[user])
                            = Len(db.player_hands[user]) + Len(db.player_hands[target])
       /\ \A t \in InFlight :
            (Commit(t) /\ t.op = "request") => Table(db') = Table(t.game)
       /\ \A user \in Humans, target \in Humans :
            RequestCards(user, target) => UNCHANGED <<db, tasks, users>>
       /\ \A user \in Humans, requester \in Players :
            RespondToRequest(user, requester, FALSE) => UNCHANGED <<db, tasks, users>>]_vars

\* a request on a bot has been accepted: the handler holds the record in which
\* the bot has escaped with an empty hand and the requester holds its cards
C21_Witness ==
    \E t \in InFlight, target \in Players :
        /\ t.op = "request" /\ t.pc = "commit"
        /\ IsBot(target)
        /\ target \notin Escaped(db)
        /\ Requestable(db.player_hands[target])
        /\ target \in Escaped(t.game)
        /\ t.game.player_hands[target] = <<>>
        /\ Len(t.game.player_hands[t.user]) > Len(db.player_hands[t.user])

\* C22: offer -- when status = playing, a caller holding 1 to 3 cards who
\* names a target other than themselves that is not in finishedPlayers hands
\* over the whole hand in one step: on the record the handler read the
\* target's hand becomes its old hand plus the caller's cards, the caller's
\* hand becomes empty and the caller is in finishedPlayers, and that is the
\* record the handler writes
C22_Offer ==
    [][/\ \A user \in Humans, target \in Players :
            (/\ OfferCards(user, target)
             /\ db.status = "playing"
             /\ Requestable(db.player_hands[user])
             /\ target # user
             /\ target \notin Escaped(db))
            => /\ Accepted
               /\ \E h \in BagToSet(tasks') :
                     /\ StartedBy(h)
                     /\ h.op = "offer" /\ h.user = user /\ h.pc = "commit"
                     /\ Taken(db, h.game, target, user)
       /\ \A t \in InFlight :
            (Commit(t) /\ t.op = "offer") => Table(db') = Table(t.game)]_vars

\* an offer of three cards has been accepted: the handler holds the record in
\* which the caller has escaped with an empty hand and the target holds the cards
C22_Witness ==
    \E t \in InFlight, target \in Players :
        /\ t.op = "offer" /\ t.pc = "commit"
        /\ Len(db.player_hands[t.user]) = ExchangeLimit
        /\ target # t.user
        /\ t.user \in Escaped(t.game)
        /\ t.game.player_hands[t.user] = <<>>
        /\ t.game.player_hands[target]
               = db.player_hands[target] \o db.player_hands[t.user]

\* the forfeit of pid, from the record before to the record after
Forfeits(before, after, pid) ==
    /\ after.loser = pid
    /\ after.status = "finished"
    /\ pid \notin Escaped(after)
    /\ Escaped(after) = Players \ {pid}
    /\ Len(after.finished_players) = NumPlayers - 1
    /\ SubSeq(after.finished_players, 1, Len(before.finished_players))
           = before.finished_players
    /\ after.player_hands = before.player_hands
    /\ after.current_trick = before.current_trick
    /\ after.waste_pile = before.waste_pile

\* C23: forfeit -- when status = playing and a player not in finishedPlayers
\* forfeits, or the task of a bot whose turn it is finds the bot holding at
\* least 35 cards, then in one step, on the record read, that player becomes
\* the loser, status becomes finished and every other player not yet in
\* finishedPlayers is added to it; the forfeiting player is not added and no
\* hand, trick or waste pile changes; that record is the one written
C23_Forfeit ==
    [][/\ \A user \in Humans :
            (/\ ForfeitGame(user)
             /\ db.status = "playing"
             /\ user \notin Escaped(db))
            => /\ Accepted
               /\ \E h \in BagToSet(tasks') :
                     /\ StartedBy(h)
                     /\ h.op = "forfeit" /\ h.user = user /\ h.pc = "commit"
                     /\ Forfeits(db, h.game, user)
       /\ \A t \in InFlight :
            (/\ BotRead(t)
             /\ db.status = "playing"
             /\ IsBot(CurrentPlayer(db))
             /\ Len(db.player_hands[CurrentPlayer(db)]) >= BotForfeitCeiling)
            => \E h \in BagToSet(tasks') :
                  /\ StartedBy(h)
                  /\ h.op = "bot" /\ h.pc = "commit"
                  /\ Forfeits(db, h.game, CurrentPlayer(db))
       /\ \A t \in InFlight :
            (Commit(t) /\ t.op \in {"forfeit", "bot"})
            => /\ Table(db') = Table(t.game)
               /\ db'.status = "finished"
               /\ db'.loser = t.game.loser]_vars

\* the bot's automatic forfeit has been written while a human's forfeit,
\* accepted on the record read before, is about to be written
C23_Witness ==
    /\ db.status = "finished"
    /\ IsBot(db.loser)
    /\ Len(db.player_hands[db.loser]) >= BotForfeitCeiling
    /\ Escaped(db) = Players \ {db.loser}
    /\ \E t \in InFlight :
          /\ t.op = "forfeit" /\ t.pc = "commit"
          /\ t.game.loser = t.user
          /\ t.game.status = "finished"
          /\ Escaped(t.game) = Players \ {t.user}

\* the step answers a request with an HTTPException and changes nothing
Refused ==
    /\ Rejected
    /\ resp' \notin {"Request sent", "Request declined"}
    /\ UNCHANGED users

\* C24: exchange rejections -- take-cards, request-cards and offer-cards with
\* the caller as target are rejected; take-cards and request-cards on a
\* target with zero cards are rejected; request-cards on a target with more
\* than 3 cards or an escaped target is rejected; offer-cards by a caller with
\* zero or more than 3 cards, or to an escaped target, is rejected; each
\* rejection leaves the persisted Game record unchanged
C24_ExchangeRejections ==
    [][\A user \in Humans, target \in Players :
          /\ (/\ TakeCards(user, target)
              /\ \/ target = user
                 \/ Len(db.player_hands[target]) = 0)
             => Refused
          /\ (/\ RequestCards(user, target)
              /\ \/ target = user
                 \/ Len(db.player_hands[target]) = 0
                 \/ Len(db.player_hands[target]) > ExchangeLimit
                 \/ target \in Escaped(db))
             => Refused
          /\ (/\ OfferCards(user, target)
              /\ \/ target = user
                 \/ Len(db.player_hands[user]) = 0
                 \/ Len(db.player_hands[user]) > ExchangeLimit
                 \/ target \in Escaped(db))
             => Refused]_vars

\* a request for the cards of a player holding more than three has been
\* rejected in a game in progress
C24_Witness ==
    /\ resp = "Can only request cards from players with 3 or fewer cards"
    /\ db.status = "playing"
    /\ \E target \in Players :
          /\ target \notin Escaped(db)
          /\ Len(db.player_hands[target]) > ExchangeLimit

\* a bot task is pending or running, or a play-card handler is on its way to
\* the check that arms one (lines 1037-1040)
TaskWillRun ==
    \E t \in InFlight : t.op = "bot" \/ (t.op = "play" /\ t.pc # "commit")

\* C25: bot scheduling -- in every reachable state with status = playing in
\* which the seat at currentPlayerIndex is bot-controlled, a bot-turn task of
\* the room is pending or in progress, or the handler that arms it is still
\* running: the game never waits on a bot seat for which no task will run
C25_BotScheduling ==
    (db.status = "playing" /\ IsBot(CurrentPlayer(db))) => TaskWillRun

\* the seats of the room the record was started for
Seated(game) == Room(Cardinality(DOMAIN game.player_hands))

HandOfSeat(game, i) == game.player_hands[Seated(game)[i + 1]]

\* how many hands of the record hold the card
Holders(game, card) ==
    {i \in 0..(Len(Seated(game)) - 1) : Copies(HandOfSeat(game, i), card) > 0}

\* C26: deal and starter -- for a start with n players (2 <= n <= 8) the n
\* hands partition the 52-card deck with card i going to seat i mod n, hand
\* sizes differ by at most 1 (13 each for n = 4), exactly one hand contains
\* the Ace of spades and the initial currentPlayerIndex is the seat of that
\* hand, with status = playing, empty trick, empty waste pile, empty
\* finishedPlayers and isFirstTrick true
C26_DealAndStarter ==
    LET n == Len(Seated(db))
    IN /\ n \in MinRoom..MaxRoom
       /\ Len(FullDeck) = 52
       /\ \A i \in 1..Len(FullDeck) :
             /\ Cardinality(Holders(db, FullDeck[i])) = 1
             /\ \A j \in Holders(db, FullDeck[i]) :
                   Copies(HandOfSeat(db, j), FullDeck[i]) = 1
       /\ \E seed \in 0..(NumDeals - 1) :
             \A i \in 0..(Len(FullDeck) - 1) :
                HandOfSeat(db, i % n)[(i \div n) + 1] = ShuffledDeck(seed)[i + 1]
       /\ \A i, j \in 0..(n - 1) :
             Len(HandOfSeat(db, i)) - Len(HandOfSeat(db, j)) <= 1
       /\ n = 4 => \A i \in 0..(n - 1) : Len(HandOfSeat(db, i)) = 13
       /\ Holders(db, AceOfSpades) = {db.current_player_index}
       /\ db.status = "playing"
       /\ db.current_trick = <<>>
       /\ db.waste_pile = <<>>
       /\ db.finished_players = <<>>
       /\ db.is_first_trick

\* a room of eight has been started with uneven hands and the Ace of spades,
\* and with it the lead, at a seat other than the first
C26_Witness ==
    /\ Len(Seated(db)) = MaxRoom
    /\ \E i, j \in 0..(MaxRoom - 1) : Len(HandOfSeat(db, i)) > Len(HandOfSeat(db, j))
    /\ db.current_player_index > 0
    /\ Copies(HandOfSeat(db, db.current_player_index), AceOfSpades) = 1

\* a card whose face cannot be seen
FaceDown == Card(None, 0)

\* the record with every hand but pid's turned face down
Masked(game, pid) ==
    [game EXCEPT !.player_hands =
        [p \in Players |->
            IF p = pid THEN game.player_hands[p]
            ELSE [k \in 1..Len(game.player_hands[p]) |-> FaceDown]]]

\* what the broadcast of the record shows to each human
PerRecipient(game) ==
    \A pid \in Humans :
        LET m == broadcast_game_state(game)[pid]
        IN /\ m.your_hand = game.player_hands[pid]
           /\ (m.all_hands # NoHands) <=> (pid \in Escaped(game))
           /\ pid \in Escaped(game) => m.all_hands = game.player_hands
           /\ pid \notin Escaped(game) =>
                 /\ m = broadcast_game_state(Masked(game, pid))[pid]
                 /\ \A p \in Players :
                       m.player_card_counts[p] = Len(game.player_hands[p])

\* C27: per-recipient view -- in every game_update the broadcaster sends to a
\* human (after a card is saved, after a trick is resolved, after the result
\* is cleared), your_hand is exactly the recipient's hand, all_hands is
\* present if and only if the recipient is in finishedPlayers, and a
\* recipient who has not escaped gets the other hands only as card counts:
\* the message is the same whatever cards those hands hold
C27_PerRecipientView ==
    [][\A t \in InFlight :
          /\ ShowCard(t) => PerRecipient(t.game)
          /\ Resolve(t) =>
                \A h \in BagToSet(tasks') :
                    (StartedBy(h) /\ h.pc = "clear") => PerRecipient(h.game)
          /\ ClearResult(t) =>
                PerRecipient([t.game EXCEPT !.last_trick_result = NoResult])]_vars

\* a trick has just been resolved and broadcast in a game that goes on, with
\* one human escaped and watching and the other still holding cards
C27_Witness ==
    \E t \in InFlight, watcher \in Humans, player \in Humans :
        /\ t.pc = "clear"
        /\ t.game.status = "playing"
        /\ watcher \in Escaped(t.game)
        /\ player \notin Escaped(t.game)
        /\ t.game.player_hands[player] # <<>>
        /\ \E p \in Players \ {player} : t.game.player_hands[p] # <<>>

\* the hand with its cards stored in every possible order
Reorderings(hand) ==
    {[i \in 1..Len(hand) |-> hand[order[i]]] : order \in Permutations(1..Len(hand))}

\* C28: bot policy determinism -- the card the policy chooses is a function of
\* the hand as an unordered collection, the lead suit, isFirstTrick, the cards
\* in the trick and the bot's tochoo history: whenever a bot task chooses a
\* card, the policy returns the same card for the same hand stored in any
\* other order
C28_BotDeterminism ==
    [][\A t \in InFlight :
          (BotRead(t) /\ ~BotIdle(db))
          => LET bot_id == CurrentPlayer(db)
             IN \A hand \in Reorderings(db.player_hands[bot_id]) :
                   SameCard(BotCard([db EXCEPT !.player_hands[bot_id] = hand], bot_id),
                            BotCard(db, bot_id))]_vars

\* C29: trick bound -- in every reachable state the number of cards in the
\* current trick is at most the number of players of playerOrder not in
\* finishedPlayers, also when a player escapes through take-cards,
\* respond-to-request or offer-cards while a trick is open
C29_TrickBound == Len(db.current_trick) <= Cardinality(Active(db))

\* C30: playable current seat -- in every reachable state with status =
\* playing in which the game is waiting for a card (no handler between its
\* read and its last write), the player at currentPlayerIndex holds at least
\* one card
C30_PlayableSeat ==
    (db.status = "playing" /\ WaitingForCard)
        => db.player_hands[CurrentPlayer(db)] # <<>>

\* the write that ends the game comes from a trick resolution or an exchange flow
EndsGame(t) ==
    /\ db.status = "playing"
    /\ db'.status = "finished"
    /\ \/ Resolve(t)
       \/ Commit(t) /\ t.op \in {"take", "request", "respond", "offer"}

\* C31: the loser holds cards -- whenever a game reaches status = finished
\* through a trick resolution or an exchange flow (not through a forfeit),
\* the player recorded as loser has a non-empty hand and every player in
\* finishedPlayers has an empty hand
C31_LoserHoldsCards ==
    [][\A t \in InFlight :
          EndsGame(t)
          => /\ db'.loser \in Players
             /\ db'.player_hands[db'.loser] # <<>>
             /\ \A p \in Escaped(db') : db'.player_hands[p] = <<>>]_vars

\* the seat index of the first player after index i, going round
\* playerOrder, who is not in the set escaped
FirstAfter(i, escaped) ==
    IndexOf(Successor(player_order[NextIndex(i) + 1], escaped))

\* after differs from before only by one card of pid's hand put on the trick
\* and, when the trick was empty, by leadSuit being that card's suit
OnlyPlayed(before, after, pid) ==
    LET c == after.current_trick[Len(after.current_trick)]
    IN /\ after.current_trick # <<>>
       /\ c.player_id = pid
       /\ InHand(before.player_hands[pid], Card(c.suit, c.value))
       /\ after = [before EXCEPT
              !.player_hands[pid] =
                  SelectSeq(@, LAMBDA x : x # Card(c.suit, c.value)),
              !.current_trick = Append(@, c),
              !.lead_suit = IF before.current_trick = <<>> THEN c.suit ELSE @]

\* C32: turn advance -- an accepted play, human or bot, that does not
\* complete the trick changes the record it read only by moving the played
\* card from the hand to the trick (setting leadSuit on a lead), that record
\* is what the handler saves, and it then sets currentPlayerIndex alone, to
\* the first index after the old one, in cyclic order of playerOrder, whose
\* player is not in finishedPlayers; the skip loop terminates
C32_TurnAdvance ==
    [][/\ PlayStep
          => \A h \in BagToSet(tasks') :
                (StartedBy(h) /\ h.pc = "show_open")
                => OnlyPlayed(db, h.game, h.user)
       /\ \A t \in InFlight :
             /\ (ShowCard(t) /\ t.pc = "show_open")
                => /\ Table(db') = Table(t.game)
                   /\ db'.lead_suit = t.game.lead_suit
                   /\ db'.current_player_index = t.game.current_player_index
             /\ t.pc = "advance" => SkipTerminates(t.game.finished_players)
             /\ Advance(t)
                => /\ db' = [db EXCEPT !.current_player_index =
                                FirstAfter(t.game.current_player_index,
                                           Escaped(t.game))]
                   /\ CurrentPlayer(db') \notin Escaped(t.game)]_vars

\* a play that left the trick open has moved the turn past an escaped seat
C32_Witness ==
    /\ db.status = "playing"
    /\ db.current_trick # <<>>
    /\ WaitingForCard
    /\ LET q == LastPlayed(db).player_id
       IN /\ player_order[NextIndex(IndexOf(q)) + 1] \in Escaped(db)
          /\ db.current_player_index = FirstAfter(IndexOf(q), Escaped(db))
          /\ CurrentPlayer(db) # q

\* the handlers of a bag that stand at pc, whatever the age of their copies
AtPc(bag, pc) ==
    BagCardinality([t \in {x \in BagToSet(bag) : x.pc = pc} |-> bag[t]])

\* the messages show the whole trick with its last card, not yet resolved:
\* nothing picked up or discarded, no result announced for this trick
ShowsLastCard(msgs, t) ==
    \A pid \in Humans :
        /\ msgs[pid].current_trick = t.game.current_trick
        /\ LastPlayed(t.game).player_id = t.user
        /\ msgs[pid].player_card_counts
               = [p \in Players |-> Len(t.game.player_hands[p])]
        /\ msgs[pid].trick_number = t.game.trick_number
        /\ msgs[pid].last_trick_result = t.game.last_trick_result

\* the messages announce the resolution of the trick the handler showed
ShowsResolution(msgs, t) ==
    \A pid \in Humans :
        /\ msgs[pid].current_trick = <<>>
        /\ msgs[pid].last_trick_result.type # None
        /\ msgs[pid].last_trick_result.player = PowerPlayer(t.game)
        /\ msgs[pid].trick_number = t.game.trick_number + 1

\* C33: ordered view -- for every play that completes a trick the state with
\* the complete trick, last card included and nothing yet picked up or
\* discarded, is saved and broadcast first; only a handler that has done so
\* saves and broadcasts the resolution; only a handler that has done that
\* saves and broadcasts the state with last_trick_result cleared; so no human
\* receives the resolution of a trick before the update showing its last card
C33_OrderedView ==
    [][/\ PlayStep
          => \A h \in BagToSet(tasks') :
                (StartedBy(h) /\ h.pc = "show_complete")
                => OnlyPlayed(db, h.game, h.user)
       /\ AtPc(tasks', "resolve") > AtPc(tasks, "resolve")
          => \E t \in InFlight :
                /\ ShowCard(t) /\ t.pc = "show_complete"
                /\ Table(db') = Table(t.game)
                /\ ShowsLastCard(broadcast_game_state(db'), t)
       /\ AtPc(tasks', "clear") > AtPc(tasks, "clear")
          => \E t \in InFlight :
                /\ Resolve(t)
                /\ Table(db') # Table(t.game)
                /\ ShowsResolution(broadcast_game_state(db'), t)
       /\ \A t \in InFlight :
             ClearResult(t)
             => /\ AtPc(tasks', "clear") < AtPc(tasks, "clear")
                /\ db'.last_trick_result = NoResult
                /\ \A pid \in Humans :
                      broadcast_game_state(
                          [t.game EXCEPT !.last_trick_result = NoResult]
                      )[pid].last_trick_result = NoResult]_vars

\* a handler has saved the complete trick and then its resolution, which is
\* on display before being cleared
C33_Witness ==
    \E t \in InFlight :
        /\ t.pc = "clear"
        /\ t.fresh
        /\ db.last_trick_result.type # None
        /\ db.current_trick = <<>>
        /\ db.trick_number = t.game.trick_number

\* the bot-turn tasks of a bag, asleep or past their read
BotTasks(bag) ==
    BagCardinality([t \in {x \in BagToSet(bag) : x.op = "bot"} |-> bag[t]])

\* C34: at most one armed bot task -- in every reachable state at most one
\* bot-turn task is pending or in progress, a bot-turn task that wakes when
\* the seat at currentPlayerIndex is not a bot's changes nothing, and no bot
\* seat has two cards in one trick
C34_OneBotTask ==
    /\ [](BotTasks(tasks) <= 1)
    /\ [](\A p \in Players : IsBot(p) => TimesPlayed(db, p) <= 1)
    /\ [][\A t \in InFlight :
             (BotRead(t) /\ ~IsBot(CurrentPlayer(db)))
             => UNCHANGED <<db, users>> /\ tasks' = Drop(t)]_vars

\* the suits of the cards of a hand
SuitsHeld(hand) == {hand[i].suit : i \in 1..Len(hand)}

\* the task leads a trick with a card chosen by the policy, not the forced
\* Ace of spades of the first trick
BotLeads(t) ==
    /\ BotRead(t)
    /\ ~BotIdle(db)
    /\ Len(db.player_hands[CurrentPlayer(db)]) < BotForfeitCeiling
    /\ db.current_trick = <<>>
    /\ ~(db.is_first_trick /\ HoldsAceOfSpades(db.player_hands[CurrentPlayer(db)]))

\* C35: bot memory when leading -- when a bot leads a trick (other than with
\* the forced Ace of spades of the first trick) and holds a card of a suit not
\* in its tochooHistory, the card it leads is of a suit not in its
\* tochooHistory; the card is the lowest-value card it holds in the suit led;
\* it leads a suit of its tochooHistory only when every suit it holds is in
\* it, and then a suit it holds fewest cards of
C35_BotMemory ==
    [][\A t \in InFlight :
          BotLeads(t)
          => \E h \in BagToSet(tasks') :
                LET bot_id == CurrentPlayer(db)
                    hand == db.player_hands[bot_id]
                    burned == db.tochoo_history[bot_id]
                    card == LastPlayed(h.game)
                IN /\ StartedBy(h)
                   /\ h.op = "bot" /\ h.user = bot_id
                   /\ h.game.current_trick = <<card>>
                   /\ InHand(hand, Card(card.suit, card.value))
                   /\ SuitsHeld(hand) \ burned # {} => card.suit \notin burned
                   /\ \A i \in 1..Len(hand) :
                         hand[i].suit = card.suit => card.value <= hand[i].value
                   /\ card.suit \in burned
                      => /\ SuitsHeld(hand) \subseteq burned
                         /\ \A s \in SuitsHeld(hand) :
                               SuitCount(hand, card.suit) <= SuitCount(hand, s)]_vars

\* a bot holding a suit it was tochoo'd in and a suit it was not has led the
\* lowest card of the second, although it holds fewer cards of the first
C35_Witness ==
    \E t \in InFlight :
        /\ t.op = "bot" /\ t.pc = "show_open"
        /\ db.current_trick = <<>>
        /\ ~db.is_first_trick
        /\ LET hand == db.player_hands[t.user]
               burned == db.tochoo_history[t.user]
               card == LastPlayed(t.game)
           IN /\ Len(t.game.current_trick) = 1
              /\ SuitsHeld(hand) \cap burned # {}
              /\ card.suit \notin burned
              /\ \E s \in SuitsHeld(hand) \cap burned :
                    SuitCount(hand, s) < SuitCount(hand, card.suit)
              /\ \E i \in 1..Len(hand) :
                    hand[i].suit = card.suit /\ hand[i].value > card.value

\* C36: one card per player per trick -- in every reachable state no player
\* has more than one card in the current trick, also when a player's second
\* play-card request arrives while the first is between saving the played
\* card and advancing the turn or resolving the trick
C36_OneCardPerTrick == \A p \in Players : TimesPlayed(db, p) <= 1

\* C37: escaped players hold no cards -- in every reachable state with
\* status = playing every player in finishedPlayers has an empty hand: no
\* trick pickup, waste-pile draw, take-cards or accepted request puts cards
\* into the hand of a player who is in finishedPlayers
C37_EscapedHoldNothing ==
    db.status = "playing" => \A p \in Escaped(db) : db.player_hands[p] = <<>>

\* the task plays a card: it wakes on a bot's seat and does not forfeit
BotPlays(t) ==
    /\ BotRead(t)
    /\ ~BotIdle(db)
    /\ Len(db.player_hands[CurrentPlayer(db)]) < BotForfeitCeiling

\* C38: bot plays are legal -- every card a bot-turn task plays is a card of
\* the bot's own hand that the validation of play-card would accept from the
\* bot in the same state: it follows leadSuit whenever the bot holds a card of
\* leadSuit, and it is the Ace of spades when the bot leads the first trick
\* while holding it
C38_BotPlaysLegal ==
    [][\A t \in InFlight :
          BotPlays(t)
          => \E h \in BagToSet(tasks') :
                LET bot_id == CurrentPlayer(db)
                    hand == db.player_hands[bot_id]
                    played == LastPlayed(h.game)
                    card == Card(played.suit, played.value)
                IN /\ StartedBy(h)
                   /\ h.op = "bot" /\ h.user = bot_id
                   /\ played.player_id = bot_id
                   /\ Len(h.game.current_trick) = Len(db.current_trick) + 1
                   /\ InHand(hand, card)
                   /\ PlayVerdict(db, bot_id, card) = "ok"
                   /\ (db.current_trick # <<>> /\ ~Void(hand, db.lead_suit))
                      => card.suit = db.lead_suit
                   /\ (db.current_trick = <<>> /\ db.is_first_trick
                          /\ InHand(hand, AceOfSpades))
                      => card = AceOfSpades]_vars

\* a bot holding cards of two suits has followed the suit that was led
C38_Witness ==
    \E t \in InFlight :
        /\ t.op = "bot" /\ t.pc \in {"show_open", "show_complete"}
        /\ db.current_trick # <<>>
        /\ Len(t.game.current_trick) = Len(db.current_trick) + 1
        /\ LastPlayed(t.game).suit = db.lead_suit
        /\ \E i \in 1..Len(db.player_hands[t.user]) :
              db.player_hands[t.user][i].suit # db.lead_suit

\* no request-cards of requester naming user can be outstanding: bots never
\* call request-cards and the endpoint rejects a request on oneself
NeverAsked(requester, user) == IsBot(requester) \/ requester = user

\* C39: accept needs a request -- a respond-to-request with accept = true
\* moves the responder's cards to requester R only if R earlier issued a
\* request-cards naming the responder that has not been answered; here for the
\* requesters that cannot have issued one: such an accept changes nothing
C39_AcceptNeedsRequest ==
    [][\A user \in Humans, requester \in Players :
          (RespondToRequest(user, requester, TRUE) /\ NeverAsked(requester, user))
          => UNCHANGED <<db, tasks, users>>]_vars

\* C40: loser is not a winner -- in every reachable state the player
\* recorded as loser is not in finishedPlayers, so nobody counts both as the
\* loser and as escaped in the same game
C40_LoserNotWinner == db.loser # None => db.loser \notin Escaped(db)

====
